---- MODULE Spec2Model ----
(***************************************************************************)
(* Model of CocoaPodsService (lib/services/cocoapods-service.ts): the      *)
(* merge of plugin Podfile fragments into the project Podfile.             *)
(*                                                                         *)
(* The project Podfile is a flat string, as in the source; every string    *)
(* primitive the service uses (indexOf, trim, replace with a string or a   *)
(* regular expression, startsWith, endsWith, substr) is an operator over   *)
(* strings that computes what the JavaScript primitive computes.           *)
(***************************************************************************)
EXTENDS Integers, Sequences, FiniteSets, TLC

(***************************************************************************)
(* Bounds of the model.                                                    *)
(***************************************************************************)
\* number of applyPodfileToProject / removePodfileFromProject calls in a run
MaxOps == 3

\* number of calls in a run over the fragments without a platform row
MaxLongOps == 4

\* number of calls in a run over the plugin names and fragments of the edge cases
MaxEdgeOps == 2

\* number of calls of the method decorated with @cache() in a run
MaxCalls == 4

(***************************************************************************)
(* String primitives.                                                      *)
(***************************************************************************)
EOL == "\n"

WhiteSpace == {" ", "\n", "\t", "\r"}

\* the character at position i (1-based) of s
CharAt(s, i) == SubSeq(s, i, i)

\* s.substr(n): s without its first n characters
Substr(s, n) == SubSeq(s, n + 1, Len(s))

MatchAt(s, sub, i) == SubSeq(s, i, i + Len(sub) - 1) = sub

\* s.indexOf(sub) !== -1
Contains(s, sub) == \E i \in 1..(Len(s) - Len(sub) + 1) : MatchAt(s, sub, i)

\* s.indexOf(sub), 0-based, -1 when sub does not occur
IndexOf(s, sub) ==
    IF ~Contains(s, sub) THEN -1
    ELSE (CHOOSE i \in 1..(Len(s) - Len(sub) + 1) :
              /\ MatchAt(s, sub, i)
              /\ \A j \in 1..(i - 1) : ~MatchAt(s, sub, j)) - 1

StartsWith(s, p) == Len(p) <= Len(s) /\ SubSeq(s, 1, Len(p)) = p

EndsWith(s, p) == Len(p) <= Len(s) /\ SubSeq(s, Len(s) - Len(p) + 1, Len(s)) = p

\* s.trim()
\* the number of characters from position i on that belong to the class
RECURSIVE RunLength(_, _, _)
RunLength(s, i, class) ==
    IF i <= Len(s) /\ CharAt(s, i) \in class THEN 1 + RunLength(s, i + 1, class) ELSE 0

\* the number of characters from position i backwards that belong to the class
RECURSIVE RunLengthBack(_, _, _)
RunLengthBack(s, i, class) ==
    IF i >= 1 /\ CharAt(s, i) \in class THEN 1 + RunLengthBack(s, i - 1, class) ELSE 0

\* s.trim()
Trim(s) ==
    LET lead == RunLength(s, 1, WhiteSpace)
    IN  IF lead = Len(s) THEN ""
        ELSE SubSeq(s, lead + 1, Len(s) - RunLengthBack(s, Len(s), WhiteSpace))

\* s.replace(pat, rep) with a string pattern: the first occurrence only
ReplaceFirst(s, pat, rep) ==
    LET i == IndexOf(s, pat)
    IN  IF i = -1 THEN s
        ELSE SubSeq(s, 1, i) \o rep \o Substr(s, i + Len(pat))

(***************************************************************************)
(* Constants of the service and of the project.                            *)
(***************************************************************************)
PODFILE_POST_INSTALL_SECTION_NAME == "post_install"

INSTALLER_BLOCK_PARAMETER_NAME == "installer"

\* projectData.projectName
projectName == "MyApp"

getPodfileHeader(targetName) ==
    "use_frameworks!" \o EOL \o EOL \o "target \"" \o targetName \o "\" do" \o EOL

getPodfileFooter == EOL \o "end"

getPluginPodfileHeader(pluginPodFilePath) == "# Begin Podfile - " \o pluginPodFilePath

getPluginPodfileEnd == "# End Podfile" \o EOL

getPostInstallHookHeader ==
    PODFILE_POST_INSTALL_SECTION_NAME \o " do |" \o INSTALLER_BLOCK_PARAMETER_NAME
        \o "|" \o EOL

(***************************************************************************)
(* Hook rewriting: getHookBasicFuncNameForPlugin and replaceHookContent.   *)
(***************************************************************************)
\* the class \w, that is [A-Za-z0-9_]
WordChars ==
    {"a", "b", "c", "d", "e", "f", "g", "h", "i", "j", "k", "l", "m",
     "n", "o", "p", "q", "r", "s", "t", "u", "v", "w", "x", "y", "z",
     "A", "B", "C", "D", "E", "F", "G", "H", "I", "J", "K", "L", "M",
     "N", "O", "P", "Q", "R", "S", "T", "U", "V", "W", "X", "Y", "Z",
     "0", "1", "2", "3", "4", "5", "6", "7", "8", "9", "_"}

\* a plugin name whose underscores are left as they are
TripleUnderscores_Identity(s) == s

\* pluginName.replace(/_/g, "___")
RECURSIVE TripleUnderscores(_)
TripleUnderscores(s) ==
    IF s = "" THEN ""
    ELSE (IF CharAt(s, 1) = "_" THEN "___" ELSE CharAt(s, 1))
             \o TripleUnderscores(Substr(s, 1))

\* s.replace(/[^A-Za-z0-9_]/g, "_")
RECURSIVE ReplaceSpecialSymbols(_)
ReplaceSpecialSymbols(s) ==
    IF s = "" THEN ""
    ELSE (IF CharAt(s, 1) \in WordChars THEN CharAt(s, 1) ELSE "_")
             \o ReplaceSpecialSymbols(Substr(s, 1))

\* a base name whose hook name goes through the replacements with the plugin name
getHookBasicFuncNameForPlugin_SanitizeAll(hookName, pluginName) ==
    ReplaceSpecialSymbols(TripleUnderscores(hookName \o pluginName))

getHookBasicFuncNameForPlugin(hookName, pluginName) ==
    hookName \o ReplaceSpecialSymbols(TripleUnderscores(pluginName))

\* decimal rendering of newFunctions.length
DigitOf(n) ==
    CASE n = 0 -> "0" [] n = 1 -> "1" [] n = 2 -> "2" [] n = 3 -> "3" [] n = 4 -> "4"
      [] n = 5 -> "5" [] n = 6 -> "6" [] n = 7 -> "7" [] n = 8 -> "8" [] n = 9 -> "9"

RECURSIVE NumberToString(_)
NumberToString(n) ==
    IF n < 10 THEN DigitOf(n) ELSE NumberToString(n \div 10) \o DigitOf(n % 10)

(* podfileContent.replace(/<hookName> do *(\|(\w+)\|)?/g, callback): every   *)
(* match becomes "def <name>_<k>", followed by " (<param>)" when the        *)
(* optional group matched; k is the number of functions found before.      *)
RECURSIVE ReplaceHooksFrom(_, _, _, _)
ReplaceHooksFrom(hookName, s, pluginName, found) ==
    LET hookStart == hookName \o " do"
        at == IndexOf(s, hookStart)
    IN  IF at = -1 THEN [replacedContent |-> s, newFunctions |-> <<>>]
        ELSE
          LET afterStart == at + Len(hookStart) + 1
              spaces == RunLength(s, afterStart, {" "})
              bar == afterStart + spaces
              word == IF bar <= Len(s) /\ CharAt(s, bar) = "|"
                      THEN RunLength(s, bar + 1, WordChars) ELSE 0
              hasGroup == /\ word > 0
                          /\ bar + word + 1 <= Len(s)
                          /\ CharAt(s, bar + word + 1) = "|"
              secondGroup == IF hasGroup THEN SubSeq(s, bar + 1, bar + word) ELSE ""
              matchEnd == IF hasGroup THEN bar + word + 1 ELSE bar - 1
              newFunctionName ==
                  getHookBasicFuncNameForPlugin(hookName, pluginName)
                      \o "_" \o NumberToString(found)
              newDefinition ==
                  IF hasGroup
                  THEN "def " \o newFunctionName \o " (" \o secondGroup \o ")"
                  ELSE "def " \o newFunctionName
              rubyFunction == [functionName |-> newFunctionName,
                               functionParameters |-> secondGroup]
              rest == ReplaceHooksFrom(hookName, Substr(s, matchEnd), pluginName,
                                       found + 1)
          IN  [replacedContent |->
                   SubSeq(s, 1, at) \o newDefinition \o rest.replacedContent,
               newFunctions |-> <<rubyFunction>> \o rest.newFunctions]

replaceHookContent(hookName, podfileContent, pluginName) ==
    ReplaceHooksFrom(hookName, podfileContent, pluginName, 0)

(***************************************************************************)
(* The platform section delegate ($cocoaPodsPlatformManager).  Its code is *)
(* not part of the sources at hand; it is modelled from the specification: *)
(* it extracts a platform row from a fragment, adds a row for the          *)
(* fragment's path to the document and removes the row of a path.          *)
(***************************************************************************)
PlatformRowStart == "platform :"

NoPlatformData == [content |-> "", path |-> ""]

getPlatformSectionHeader(podfilePath) == "# Platform - " \o podfilePath \o EOL

\* the part of s before its first line separator
FirstLine(s) ==
    LET at == IndexOf(s, EOL) IN IF at = -1 THEN s ELSE SubSeq(s, 1, at)

\* the part of s after its first line separator
AfterFirstLine(s) ==
    LET at == IndexOf(s, EOL) IN IF at = -1 THEN "" ELSE Substr(s, at + 1)

replacePlatformRow(podfileContent, podfilePath) ==
    LET at == IndexOf(podfileContent, PlatformRowStart)
    IN  IF at = -1
        THEN [replacedContent |-> podfileContent, podfilePlatformData |-> NoPlatformData]
        ELSE [replacedContent |->
                  SubSeq(podfileContent, 1, at) \o AfterFirstLine(Substr(podfileContent, at)),
              podfilePlatformData |->
                  [content |-> FirstLine(Substr(podfileContent, at)),
                   path |-> podfilePath]]

addPlatformSection(podfilePlatformData, projectPodfileContent) ==
    getPlatformSectionHeader(podfilePlatformData.path)
        \o podfilePlatformData.content \o EOL \o projectPodfileContent

removePlatformSection(moduleName, projectPodfileContent, podfilePath) ==
    LET at == IndexOf(projectPodfileContent, getPlatformSectionHeader(podfilePath))
    IN  IF at = -1 THEN projectPodfileContent
        ELSE SubSeq(projectPodfileContent, 1, at)
                 \o AfterFirstLine(Substr(projectPodfileContent,
                        at + Len(getPlatformSectionHeader(podfilePath))))

(***************************************************************************)
(* buildPodfileContent: the managed block of a fragment.                   *)
(***************************************************************************)
buildPodfileContent(pluginPodfileContent, pluginPodFilePath, pluginName) ==
    LET data == replaceHookContent(PODFILE_POST_INSTALL_SECTION_NAME,
                                   pluginPodfileContent, pluginName)
        row == replacePlatformRow(data.replacedContent, pluginPodFilePath)
    IN  [podfileContent |->
             getPluginPodfileHeader(pluginPodFilePath) \o EOL \o row.replacedContent
                 \o EOL \o getPluginPodfileEnd,
         replacedFunctions |-> data.newFunctions,
         podfilePlatformData |-> row.podfilePlatformData]

(***************************************************************************)
(* The text surgery of removePodfileFromProject.                           *)
(***************************************************************************)
\* a removal that deletes nothing
RemoveMarkedBlocks_None(s, header, end) == s

(* content.replace(new RegExp(header + "[\\s\\S]*?" + end, "mg"), ""):      *)
(* every stretch from an occurrence of the header to the nearest following *)
(* end marker is deleted.  The header is used as a pattern; the fragment   *)
(* paths of the model hold no character that is special in a pattern.      *)
RECURSIVE RemoveMarkedBlocks(_, _, _)
RemoveMarkedBlocks(s, header, end) ==
    LET from == IndexOf(s, header)
    IN  IF from = -1 THEN s
        ELSE LET tail == Substr(s, from + Len(header))
                 to == IndexOf(tail, end)
             IN  IF to = -1 THEN s
                 ELSE SubSeq(s, 1, from)
                          \o RemoveMarkedBlocks(Substr(tail, to + Len(end)), header, end)

(* content.replace(new RegExp("^.*?" + name + ".*?$\\r?\\n", "gm"), ""):    *)
(* every line that contains the name and is ended by a line separator is   *)
(* deleted together with its separator.                                    *)
RECURSIVE RemoveLinesContaining(_, _)
RemoveLinesContaining(s, name) ==
    LET at == IndexOf(s, EOL)
        line == SubSeq(s, 1, at)
    IN  IF at = -1 THEN s
        ELSE (IF Contains(line, name) THEN "" ELSE line \o EOL)
                 \o RemoveLinesContaining(Substr(s, at + 1), name)

\* a removal of call lines that deletes no line
removePostInstallHook_None(moduleName, projectPodFileContent) == projectPodFileContent

removePostInstallHook(moduleName, projectPodFileContent) ==
    RemoveLinesContaining(projectPodFileContent,
        getHookBasicFuncNameForPlugin(PODFILE_POST_INSTALL_SECTION_NAME, moduleName))

(***************************************************************************)
(* addPostInstallHook, getPodfileContentWithoutTarget, saveProjectPodfile. *)
(***************************************************************************)
\* call lines that pass the installer to every function
RECURSIVE FunctionExecutions_AlwaysArgument(_)
FunctionExecutions_AlwaysArgument(replacedFunctions) ==
    IF replacedFunctions = <<>> THEN ""
    ELSE "  " \o Head(replacedFunctions).functionName \o " "
             \o INSTALLER_BLOCK_PARAMETER_NAME \o EOL
             \o FunctionExecutions_AlwaysArgument(Tail(replacedFunctions))

\* the call lines of the functions, in the order of the list (_.each)
RECURSIVE FunctionExecutions(_)
FunctionExecutions(replacedFunctions) ==
    IF replacedFunctions = <<>> THEN ""
    ELSE LET rubyFunction == Head(replacedFunctions)
             functionExecution ==
                 IF Len(rubyFunction.functionParameters) > 0
                 THEN rubyFunction.functionName \o " " \o INSTALLER_BLOCK_PARAMETER_NAME
                 ELSE rubyFunction.functionName
         IN  "  " \o functionExecution \o EOL
                 \o FunctionExecutions(Tail(replacedFunctions))

\* the call lines put before the "end" of the aggregate, after the lines in it
addPostInstallHook_AtEnd(replacedFunctions, finalPodfileContent) ==
    LET postInstallHookStart == getPostInstallHookHeader
        postInstallHookContent == FunctionExecutions(replacedFunctions)
        at == IndexOf(finalPodfileContent, postInstallHookStart)
        body == Substr(finalPodfileContent, at)
    IN  IF postInstallHookContent = "" THEN finalPodfileContent
        ELSE IF at # -1
        THEN SubSeq(finalPodfileContent, 1, at)
                 \o ReplaceFirst(body, "end", postInstallHookContent \o "end")
        ELSE (IF Len(finalPodfileContent) > 0
              THEN finalPodfileContent \o EOL \o EOL ELSE finalPodfileContent)
                 \o postInstallHookStart \o postInstallHookContent \o "end"

\* an aggregate that is written also when there is no call line to add
addPostInstallHook_Always(replacedFunctions, finalPodfileContent) ==
    LET postInstallHookStart == getPostInstallHookHeader
        postInstallHookContent == FunctionExecutions(replacedFunctions)
    IN  IF Contains(finalPodfileContent, postInstallHookStart)
        THEN ReplaceFirst(finalPodfileContent, postInstallHookStart,
                          postInstallHookStart \o postInstallHookContent)
        ELSE (IF Len(finalPodfileContent) > 0
              THEN finalPodfileContent \o EOL \o EOL ELSE finalPodfileContent)
                 \o postInstallHookStart \o postInstallHookContent \o "end"

addPostInstallHook(replacedFunctions, finalPodfileContent) ==
    LET postInstallHookStart == getPostInstallHookHeader
        postInstallHookContent == FunctionExecutions(replacedFunctions)
    IN  IF postInstallHookContent = "" THEN finalPodfileContent
        ELSE IF Contains(finalPodfileContent, postInstallHookStart)
        THEN ReplaceFirst(finalPodfileContent, postInstallHookStart,
                          postInstallHookStart \o postInstallHookContent)
        ELSE (IF Len(finalPodfileContent) > 0
              THEN finalPodfileContent \o EOL \o EOL ELSE finalPodfileContent)
                 \o postInstallHookStart \o postInstallHookContent \o "end"

getPodfileContentWithoutTarget(projectPodfileContent) ==
    LET podFileHeader == getPodfileHeader(projectName)
        podFileFooter == getPodfileFooter
    IN  IF StartsWith(projectPodfileContent, podFileHeader)
        THEN LET inner == Substr(projectPodfileContent, Len(podFileHeader))
             IN  IF EndsWith(inner, podFileFooter)
                 THEN Trim(SubSeq(inner, 1, Len(inner) - Len(podFileFooter)))
                 ELSE Trim(inner)
        ELSE Trim(projectPodfileContent)

\* a save that does not put the footer after the content
saveProjectPodfile_NoFooter(projectPodfileContent) ==
    getPodfileHeader(projectName)
        \o getPodfileContentWithoutTarget(projectPodfileContent)

\* the content saveProjectPodfile writes
saveProjectPodfile(projectPodfileContent) ==
    getPodfileHeader(projectName)
        \o getPodfileContentWithoutTarget(projectPodfileContent)
        \o getPodfileFooter

(***************************************************************************)
(* The file system: the project Podfile and the fragments of the plugins.  *)
(***************************************************************************)
\* $fs.exists is false: no file
NoFile == [exists |-> FALSE, content |-> ""]

File(text) == [exists |-> TRUE, content |-> text]

\* moduleName of the plugins of the model
Owners == {"a", "ab"}

\* podfilePath of a plugin (the scenario of the specification: "plugins/a/Podfile")
getPluginPodfilePath(moduleName) == "plugins/" \o moduleName \o "/Podfile"

\* what a plugin's fragment file may hold when it is read
FragmentTexts ==
    { "pod 'X'",
      "post_install do |installer|\n  puts \"a\"\nend",
      "post_install do |installer|\n  puts 1\nend\npost_install do\n  puts 2\nend",
      "platform :ios, '9.0'\npod 'Y'" }

Fragments == {NoFile} \cup {File(t) : t \in FragmentTexts}

\* the fragments of the longer runs: one without and one with a hook
LongFragments ==
    {File("pod 'X'"), File("post_install do |installer|\n  puts \"a\"\nend")}

\* plugin names with a special symbol, an underscore and three underscores
EdgeOwners == {"nativescript-hook", "nativescript_hook", "nativescript___hook"}

\* fragments of the edge cases: a hook whose block parameter has another name,
\* a hook without and a hook with a block parameter, a hook written with braces
\* (no "post_install do"), and a body that holds the end marker as a line
EdgeFragments ==
    { File("post_install do |pi|\n  puts 1\nend"),
      File("post_install do\n  puts 1\nend\npost_install do |installer|\n  puts 2\nend"),
      File("post_install { |installer| puts 3 }"),
      File("pod 'X'\n# End Podfile\npod 'Z'") }

(***************************************************************************)
(* removePodfileFromProject and applyPodfileToProject as functions of the  *)
(* project file: the file they leave and the writes and deletes they do.   *)
(***************************************************************************)
\* the template without the line separator after the target header
defaultContentWithPostInstallHook_NoEol ==
    getPodfileHeader(projectName) \o getPostInstallHookHeader \o "end" \o EOL \o "end"

defaultContentWithPostInstallHook ==
    getPodfileHeader(projectName) \o EOL \o getPostInstallHookHeader
        \o "end" \o EOL \o "end"

defaultContentWithoutPostInstallHook == getPodfileHeader(projectName) \o "end"

\* the content after the three removals: managed block, call lines, platform row
removedPodfileContent(moduleName, podfilePath, content) ==
    removePlatformSection(moduleName,
        removePostInstallHook(moduleName,
            RemoveMarkedBlocks(content, getPluginPodfileHeader(podfilePath),
                               getPluginPodfileEnd)),
        podfilePath)

\* the delete or the write that ends the removal
deleteOrWrite(projectPodFileContent) ==
    IF \/ Trim(projectPodFileContent) = ""
       \/ Trim(projectPodFileContent) = defaultContentWithPostInstallHook
       \/ Trim(projectPodFileContent) = defaultContentWithoutPostInstallHook
    THEN [file |-> NoFile, writes |-> 0, deletes |-> 1]
    ELSE [file |-> File(projectPodFileContent), writes |-> 1, deletes |-> 0]

\* a removal that does not check that the project Podfile exists
removePodfileFromProject_NoExistsCheck(moduleName, podfilePath, file) ==
    deleteOrWrite(removedPodfileContent(moduleName, podfilePath, file.content))

\* a removal that writes whatever is left, an empty template included
removePodfileFromProject_AlwaysWrite(moduleName, podfilePath, file) ==
    IF ~file.exists THEN [file |-> file, writes |-> 0, deletes |-> 0]
    ELSE [file |-> File(removedPodfileContent(moduleName, podfilePath, file.content)),
          writes |-> 1, deletes |-> 0]

removePodfileFromProject(moduleName, podfilePath, file) ==
    IF ~file.exists THEN [file |-> file, writes |-> 0, deletes |-> 0]
    ELSE deleteOrWrite(removedPodfileContent(moduleName, podfilePath, file.content))

\* a containment check that looks at the start of the document only
containsPodfileContent_AtStart(projectPodfileContent, podfileContent) ==
    StartsWith(projectPodfileContent, podfileContent)

\* projectPodfileContent.indexOf(podfileContent) !== -1
containsPodfileContent(projectPodfileContent, podfileContent) ==
    Contains(projectPodfileContent, podfileContent)

\* the managed block put after the rest of the document
prependPodfileContent_Append(podfileContent, finalPodfileContent) ==
    finalPodfileContent \o EOL \o podfileContent

\* `${podfileContent}${EOL}${finalPodfileContent}`
prependPodfileContent(podfileContent, finalPodfileContent) ==
    podfileContent \o EOL \o finalPodfileContent

\* the project Podfile without its target header and footer ("" when no file)
getFinalPodfileContent(file) ==
    IF file.exists THEN getPodfileContentWithoutTarget(file.content) ELSE ""

\* the call lines are added when the managed block mentions post_install
withPostInstallHook(built, finalPodfileContent) ==
    IF Contains(built.podfileContent, PODFILE_POST_INSTALL_SECTION_NAME)
    THEN addPostInstallHook(built.replacedFunctions, finalPodfileContent)
    ELSE finalPodfileContent

\* the platform row is added when the fragment held one
withPlatformSection(built, finalPodfileContent) ==
    IF built.podfilePlatformData # NoPlatformData
    THEN addPlatformSection(built.podfilePlatformData, finalPodfileContent)
    ELSE finalPodfileContent

\* the branch taken when the managed block is not in the project Podfile:
\* removed is what removePodfileFromProject returned for the owner
insertPodfileContent(built, removed) ==
    [file |-> File(saveProjectPodfile(
                  prependPodfileContent(built.podfileContent,
                      withPlatformSection(built,
                          withPostInstallHook(built,
                              getFinalPodfileContent(removed.file)))))),
     writes |-> removed.writes + 1,
     deletes |-> removed.deletes]

applyBuiltPodfile(moduleName, podfilePath, built, file) ==
    IF containsPodfileContent(IF file.exists THEN Trim(file.content) ELSE "",
                              built.podfileContent)
    THEN [file |-> file, writes |-> 0, deletes |-> 0]
    ELSE insertPodfileContent(built,
             removePodfileFromProject(moduleName, podfilePath, file))

\* an apply that returns at once when the fragment is missing
applyPodfileToProject_IgnoreMissing(moduleName, podfilePath, fragment, file) ==
    IF ~fragment.exists
    THEN [file |-> file, writes |-> 0, deletes |-> 0]
    ELSE applyBuiltPodfile(moduleName, podfilePath,
             buildPodfileContent(fragment.content, podfilePath, moduleName), file)

applyPodfileToProject(moduleName, podfilePath, fragment, file) ==
    IF ~fragment.exists
    THEN removePodfileFromProject(moduleName, podfilePath, file)
    ELSE applyBuiltPodfile(moduleName, podfilePath,
             buildPodfileContent(fragment.content, podfilePath, moduleName), file)

(***************************************************************************)
(* The state machine: calls of the two public operations, in sequence.     *)
(***************************************************************************)
VARIABLES
    podfile,    \* the project Podfile: [exists, content]
    hist,       \* the calls made so far, each with the file before and after
    isCalled,   \* this.__isCalled_<propertyKey>__ of each instance
    cachedResult,  \* the variable result of the closure of the decorator
    cacheCalls  \* the calls of the decorated method made so far

vars == <<podfile, hist, isCalled, cachedResult, cacheCalls>>

\* the state of the decorated method, which the Podfile operations leave alone
cacheVars == <<isCalled, cachedResult, cacheCalls>>

\* the instances of the class whose method is decorated with @cache()
Instances == {"i1", "i2"}

\* the arguments of a call
Arguments == {"x", "y"}

\* let result: any, before any assignment
Undefined == "undefined"

\* originalValue.apply(this, args): a value computed from the instance and the
\* arguments of the call
originalValue(this, args) == this \o "(" \o args \o ")"

Call(op, moduleName, fragment, result) ==
    [op |-> op, owner |-> moduleName, fragment |-> fragment,
     before |-> podfile, after |-> result.file,
     writes |-> result.writes, deletes |-> result.deletes]

Init ==
    /\ podfile = NoFile
    /\ hist = <<>>
    /\ isCalled = [this \in Instances |-> FALSE]
    /\ cachedResult = Undefined
    /\ cacheCalls = <<>>

ApplyPodfile(moduleName, fragment) ==
    LET result == applyPodfileToProject(moduleName, getPluginPodfilePath(moduleName),
                                        fragment, podfile)
    IN  /\ podfile' = result.file
        /\ hist' = Append(hist, Call("apply", moduleName, fragment, result))
        /\ UNCHANGED cacheVars

RemovePodfile(moduleName) ==
    LET result == removePodfileFromProject(moduleName,
                                           getPluginPodfilePath(moduleName), podfile)
    IN  /\ podfile' = result.file
        /\ hist' = Append(hist, Call("remove", moduleName, NoFile, result))
        /\ UNCHANGED cacheVars

Next ==
    \/ \E moduleName \in Owners : \E fragment \in Fragments :
           Len(hist) < MaxOps /\ ApplyPodfile(moduleName, fragment)
    \/ \E moduleName \in Owners :
           Len(hist) < MaxOps /\ RemovePodfile(moduleName)

Spec == Init /\ [][Next]_vars

\* longer runs over the fragments without a platform row
NextLong ==
    \/ \E moduleName \in Owners : \E fragment \in LongFragments :
           Len(hist) < MaxLongOps /\ ApplyPodfile(moduleName, fragment)
    \/ \E moduleName \in Owners :
           Len(hist) < MaxLongOps /\ RemovePodfile(moduleName)

SpecLong == Init /\ [][NextLong]_vars

(* The function that @cache() puts in place of the method, called on an     *)
(* instance: the first call on an instance sets its flag, runs the         *)
(* original method and stores its value in the result of the closure;      *)
(* every call returns the result of the closure.  The closure is made once *)
(* for the decorated method, so all instances of the class share it.       *)
CallCached(this, args) ==
    LET runs == ~isCalled[this]
        returned == IF runs THEN originalValue(this, args) ELSE cachedResult
    IN  /\ isCalled' = [isCalled EXCEPT ![this] = TRUE]
        /\ cachedResult' = returned
        /\ cacheCalls' = Append(cacheCalls, [this |-> this, args |-> args,
                                             runs |-> runs, returned |-> returned])
        /\ UNCHANGED <<podfile, hist>>

\* runs of calls of the decorated method on the instances
NextCache ==
    \E this \in Instances : \E args \in Arguments :
        Len(cacheCalls) < MaxCalls /\ CallCached(this, args)

SpecCache == Init /\ [][NextCache]_vars

\* runs over the plugin names and fragments of the edge cases
NextEdge ==
    \/ \E moduleName \in EdgeOwners : \E fragment \in EdgeFragments :
           Len(hist) < MaxEdgeOps /\ ApplyPodfile(moduleName, fragment)
    \/ \E moduleName \in EdgeOwners :
           Len(hist) < MaxEdgeOps /\ RemovePodfile(moduleName)

SpecEdge == Init /\ [][NextEdge]_vars

(***************************************************************************)
(* Properties.                                                             *)
(***************************************************************************)
\* the n-th call of the run
CallAt(n) == hist[n]

\* the last call of the run is an apply of an existing fragment
LastIsApplyOfFragment ==
    /\ Len(hist) >= 1
    /\ hist[Len(hist)].op = "apply"
    /\ hist[Len(hist)].fragment.exists

\* the last two calls are applies of the same owner with the same existing fragment
LastTwoAreSameApply ==
    /\ Len(hist) >= 2
    /\ LastIsApplyOfFragment
    /\ hist[Len(hist) - 1].op = "apply"
    /\ hist[Len(hist) - 1].owner = hist[Len(hist)].owner
    /\ hist[Len(hist) - 1].fragment = hist[Len(hist)].fragment

(* C1: idempotence of apply.  Whatever the project Podfile was (no file     *)
(* included), a second applyPodfileToProject of the same owner with the    *)
(* same existing fragment leaves the file as the first call left it, and   *)
(* writes and deletes nothing.                                             *)
C1_Idempotence ==
    LastTwoAreSameApply =>
        /\ hist[Len(hist)].after = hist[Len(hist) - 1].after
        /\ hist[Len(hist)].writes = 0
        /\ hist[Len(hist)].deletes = 0

\* a repeated apply on top of a document that held another owner's contribution
C1_Witness ==
    /\ LastTwoAreSameApply
    /\ Len(hist) = 3
    /\ hist[1].owner # hist[2].owner
    /\ hist[2].before.exists
    /\ hist[2].writes > 0
    /\ hist[3].writes = 0
    /\ hist[3].after = hist[2].after

\* the number of characters from position i on that do not belong to the class
RECURSIVE RunLengthNot(_, _, _)
RunLengthNot(s, i, class) ==
    IF i <= Len(s) /\ CharAt(s, i) \notin class
    THEN 1 + RunLengthNot(s, i + 1, class) ELSE 0

\* s without its white space
RECURSIVE StripWhiteSpace(_)
StripWhiteSpace(s) ==
    IF s = "" THEN ""
    ELSE IF CharAt(s, 1) \in WhiteSpace
    THEN StripWhiteSpace(Substr(s, RunLength(s, 1, WhiteSpace)))
    ELSE SubSeq(s, 1, RunLengthNot(s, 1, WhiteSpace))
             \o StripWhiteSpace(Substr(s, RunLengthNot(s, 1, WhiteSpace)))

\* two states of the project Podfile are equal up to white space
SameUpToWhiteSpace(f, g) ==
    /\ f.exists = g.exists
    /\ StripWhiteSpace(f.content) = StripWhiteSpace(g.content)

\* the managed block applyPodfileToProject builds for a call
BuiltOf(call) ==
    buildPodfileContent(call.fragment.content, getPluginPodfilePath(call.owner),
                        call.owner)

\* the project Podfile holds a managed block of the owner
HoldsBlockOf(file, moduleName) ==
    Contains(file.content,
             getPluginPodfileHeader(getPluginPodfilePath(moduleName)) \o EOL)

(* C2: round trip.  When the project Podfile D holds nothing of owner p,    *)
(* removePodfileFromProject(p) right after applyPodfileToProject(p, f)     *)
(* gives back D up to white space: nothing that was absent from D stays.   *)
C2_RoundTrip ==
    (/\ Len(hist) >= 2
     /\ hist[Len(hist)].op = "remove"
     /\ hist[Len(hist) - 1].op = "apply"
     /\ hist[Len(hist) - 1].fragment.exists
     /\ hist[Len(hist) - 1].owner = hist[Len(hist)].owner
     /\ ~HoldsBlockOf(hist[Len(hist) - 1].before, hist[Len(hist)].owner))
    => SameUpToWhiteSpace(hist[Len(hist)].after, hist[Len(hist) - 1].before)

\* the call line addPostInstallHook writes for a function
CallLineOf(rubyFunction) ==
    "  " \o rubyFunction.functionName
         \o (IF rubyFunction.functionParameters # ""
             THEN " " \o INSTALLER_BLOCK_PARAMETER_NAME ELSE "")
         \o EOL

\* the document holds everything the call contributed: the managed block as
\* built, a call line for each of its functions, and its platform row
HoldsContributionOf(content, call) ==
    /\ Contains(content, BuiltOf(call).podfileContent)
    /\ \A k \in 1..Len(BuiltOf(call).replacedFunctions) :
           Contains(content, CallLineOf(BuiltOf(call).replacedFunctions[k]))
    /\ BuiltOf(call).podfilePlatformData # NoPlatformData =>
           Contains(content, getPlatformSectionHeader(getPluginPodfilePath(call.owner))
                                 \o BuiltOf(call).podfilePlatformData.content \o EOL)

(* C3: isolation of remove.  After apply(A), apply(B), remove(A) for two    *)
(* distinct owners, the document still holds B's managed block with the    *)
(* same text, B's call lines and B's platform row.                         *)
C3_Isolation ==
    (/\ Len(hist) = 3
     /\ hist[1].op = "apply" /\ hist[1].fragment.exists
     /\ hist[2].op = "apply" /\ hist[2].fragment.exists
     /\ hist[3].op = "remove"
     /\ hist[3].owner = hist[1].owner
     /\ hist[2].owner # hist[1].owner)
    => /\ podfile.exists
       /\ HoldsContributionOf(podfile.content, hist[2])

\* the fragment of the call holds a platform row
HasPlatformRow(call) == Contains(call.fragment.content, PlatformRowStart)

\* every call of the run is for one owner, with fragments without a platform row
OnlyOneOwner ==
    \A i \in 1..Len(hist) : hist[i].owner = hist[1].owner /\ ~HasPlatformRow(hist[i])

(* C4: collapse to delete.  From no project file, when one owner only was   *)
(* ever applied (fragment with or without a hook), removing it deletes the *)
(* project Podfile: nothing is written.                                    *)
C4_CollapseToDelete ==
    (/\ Len(hist) >= 2
     /\ OnlyOneOwner
     /\ hist[Len(hist)].op = "remove"
     /\ hist[Len(hist)].before.exists)
    => /\ ~podfile.exists
       /\ hist[Len(hist)].deletes = 1
       /\ hist[Len(hist)].writes = 0

\* a fragment with a hook was applied and its owner then removed
C4_Witness ==
    /\ Len(hist) = 2
    /\ OnlyOneOwner
    /\ hist[1].op = "apply"
    /\ Len(BuiltOf(hist[1]).replacedFunctions) > 0
    /\ hist[2].op = "remove"
    /\ hist[2].before.exists
    /\ hist[2].deletes = 1
    /\ ~podfile.exists

\* the indexes of the calls that apply an existing fragment
Applies == {i \in 1..Len(hist) : hist[i].op = "apply" /\ hist[i].fragment.exists}

\* the last call for the owner is a removePodfileFromProject
LastCallIsRemove(moduleName) ==
    \E j \in 1..Len(hist) :
        /\ hist[j].owner = moduleName
        /\ hist[j].op = "remove"
        /\ \A k \in (j + 1)..Len(hist) : hist[k].owner # moduleName

(* C5: deletion when nothing remains.  From no project file, after any      *)
(* sequence of calls at the end of which every applied owner has been      *)
(* removed, the project Podfile does not exist.                            *)
C5_DeletedWhenNothingRemains ==
    (/\ Applies # {}
     /\ \A i \in Applies : LastCallIsRemove(hist[i].owner))
    => ~podfile.exists

\* the number of occurrences of sub in s
CountOf(s, sub) ==
    Cardinality({i \in 1..(Len(s) - Len(sub) + 1) : MatchAt(s, sub, i)})

\* the number of managed blocks of the owner in the project Podfile
BlocksOf(moduleName) ==
    CountOf(podfile.content,
            getPluginPodfileHeader(getPluginPodfilePath(moduleName)) \o EOL)

(* C6: at most one managed block per owner.  In every reachable state the   *)
(* project Podfile holds at most one "# Begin Podfile - <path>" block for  *)
(* each fragment path, also after a re-apply with changed content.         *)
C6_AtMostOneBlock == \A moduleName \in Owners : BlocksOf(moduleName) <= 1

\* an owner was applied again after its fragment changed: one block, the new one
C6_Witness ==
    /\ Len(hist) >= 2
    /\ {1, 2} \subseteq Applies
    /\ hist[1].owner = hist[2].owner
    /\ hist[1].fragment # hist[2].fragment
    /\ Len(hist) = 2
    /\ BlocksOf(hist[2].owner) = 1
    /\ Contains(podfile.content, BuiltOf(hist[2]).podfileContent)

\* the lines of s: the parts between its line separators
RECURSIVE SplitLines(_)
SplitLines(s) ==
    LET at == IndexOf(s, EOL)
    IN  IF at = -1 THEN <<s>>
        ELSE <<SubSeq(s, 1, at)>> \o SplitLines(Substr(s, at + 1))

\* the index of the first line from index i on that equals the text, 0 if none
RECURSIVE LineIndexFrom(_, _, _)
LineIndexFrom(lines, text, i) ==
    IF i > Len(lines) THEN 0
    ELSE IF lines[i] = text THEN i
    ELSE LineIndexFrom(lines, text, i + 1)

\* the post_install aggregate header as a line
PostInstallHookLine ==
    SubSeq(getPostInstallHookHeader, 1, Len(getPostInstallHookHeader) - Len(EOL))

\* the lines between the aggregate header and the "end" that closes it
CallLinesIn(lines) ==
    LET header == LineIndexFrom(lines, PostInstallHookLine, 1)
        end == LineIndexFrom(lines, "end", header + 1)
    IN  IF header = 0 \/ end = 0 THEN <<>>
        ELSE SubSeq(lines, header + 1, end - 1)

\* the call lines of the post_install aggregate of a document
AggregateCalls(content) == CallLinesIn(SplitLines(content))

\* the lines of a document that define a function
DefLinesIn(content) ==
    LET lines == SplitLines(content)
    IN  {lines[i] : i \in {j \in 1..Len(lines) : StartsWith(lines[j], "def ")}}

\* the call line of a function without its line separator
CallTextOf(rubyFunction) ==
    SubSeq(CallLineOf(rubyFunction), 1, Len(CallLineOf(rubyFunction)) - Len(EOL))

\* the number of call lines of the aggregate that are the text
TimesCalled(content, text) ==
    Cardinality({k \in 1..Len(AggregateCalls(content)) :
                     AggregateCalls(content)[k] = text})

\* the run is N applies of N distinct owners, each fragment with one hook
OneHookEach ==
    /\ Len(hist) >= 2
    /\ Applies = 1..Len(hist)
    /\ \A i, j \in 1..Len(hist) : i # j => hist[i].owner # hist[j].owner
    /\ \A i \in 1..Len(hist) : Len(BuiltOf(hist[i]).replacedFunctions) = 1

(* C7: hook uniqueness.  After applying N fragments of N distinct owners,   *)
(* each with one hook, the document defines N distinct generated functions *)
(* and the aggregate holds exactly N call lines, one per function.         *)
C7_HookUniqueness ==
    OneHookEach =>
        /\ Cardinality(DefLinesIn(podfile.content)) = Len(hist)
        /\ Len(AggregateCalls(podfile.content)) = Len(hist)
        /\ \A i \in 1..Len(hist) :
               TimesCalled(podfile.content,
                           CallTextOf(BuiltOf(hist[i]).replacedFunctions[1])) = 1

\* the base of the generated function names of an owner
BaseNameOf(moduleName) ==
    getHookBasicFuncNameForPlugin(PODFILE_POST_INSTALL_SECTION_NAME, moduleName)

\* the index of the first apply of an existing fragment with a hook for the owner
FirstHookApply(moduleName) ==
    CHOOSE i \in Applies :
        /\ hist[i].owner = moduleName
        /\ Len(BuiltOf(hist[i]).replacedFunctions) > 0
        /\ \A j \in Applies :
               (hist[j].owner = moduleName
                  /\ Len(BuiltOf(hist[j]).replacedFunctions) > 0) => i <= j

HookApplied(moduleName) ==
    \E i \in Applies :
        hist[i].owner = moduleName /\ Len(BuiltOf(hist[i]).replacedFunctions) > 0

\* the position of the first call line of the owner in the aggregate, 0 if none
RECURSIVE CallPositionFrom(_, _, _)
CallPositionFrom(calls, moduleName, k) ==
    IF k > Len(calls) THEN 0
    ELSE IF Contains(calls[k], BaseNameOf(moduleName) \o "_") THEN k
    ELSE CallPositionFrom(calls, moduleName, k + 1)

CallPosition(moduleName) ==
    CallPositionFrom(AggregateCalls(podfile.content), moduleName, 1)

(* C8 as claimed: the call lines of the aggregate are in first-application  *)
(* order: when A's hook was first applied before B's, A's call line comes  *)
(* before B's.                                                             *)
C8_FirstApplicationOrder ==
    \A A, B \in Owners :
        (/\ HookApplied(A) /\ HookApplied(B)
         /\ FirstHookApply(A) < FirstHookApply(B)
         /\ CallPosition(A) > 0 /\ CallPosition(B) > 0)
        => CallPosition(A) < CallPosition(B)

\* the call lines, without line separators, of a list of functions
CallTextsOf(replacedFunctions) ==
    [k \in 1..Len(replacedFunctions) |-> CallTextOf(replacedFunctions[k])]

\* the lines that removePostInstallHook leaves: those without the owner's base name
WithoutCallsOf(calls, moduleName) ==
    LET Kept(line) == ~Contains(line, BaseNameOf(moduleName))
    IN  SelectSeq(calls, Kept)

\* the last call is an apply of an existing fragment that wrote the project Podfile
LastApplyInserted == LastIsApplyOfFragment /\ hist[Len(hist)].writes > 0

(* C8 as amended: the call lines are in reverse application order.  An      *)
(* apply that inserts a managed block puts the call lines of its functions *)
(* at the top of the aggregate, in the order of the hooks in the fragment, *)
(* before the call lines that were there, which keep their order.          *)
C8_NewCallsFirst ==
    LastApplyInserted =>
        AggregateCalls(podfile.content)
            = CallTextsOf(BuiltOf(hist[Len(hist)]).replacedFunctions)
                \o WithoutCallsOf(AggregateCalls(hist[Len(hist)].before.content),
                                  hist[Len(hist)].owner)

\* a second owner's hook was applied: its call line is above the first owner's
C8_Witness ==
    /\ Len(hist) = 2
    /\ LastApplyInserted
    /\ hist[1].owner # hist[2].owner
    /\ Len(AggregateCalls(hist[2].before.content)) = 1
    /\ Len(BuiltOf(hist[2]).replacedFunctions) = 2
    /\ Len(AggregateCalls(podfile.content)) = 3
    /\ AggregateCalls(podfile.content)[3] = AggregateCalls(hist[2].before.content)[1]

\* the header lines of the managed blocks of a document, in order
BlockHeadersIn(content) ==
    LET IsHeader(line) == StartsWith(line, getPluginPodfileHeader(""))
    IN  SelectSeq(SplitLines(content), IsHeader)

WithoutHeader(headers, header) ==
    LET Other(line) == line # header
    IN  SelectSeq(headers, Other)

\* the header line of the managed block of the owner of a call
HeaderOf(call) == getPluginPodfileHeader(getPluginPodfilePath(call.owner))

LastIsApplyOfMissing ==
    /\ Len(hist) >= 1
    /\ hist[Len(hist)].op = "apply"
    /\ ~hist[Len(hist)].fragment.exists

\* the trimmed content is empty or one of the two empty templates
IsEmptyTemplate(content) ==
    Trim(content) \in {"", defaultContentWithPostInstallHook,
                       defaultContentWithoutPostInstallHook}

(* C10: missing fragment.  applyPodfileToProject of a fragment that does    *)
(* not exist leaves the project Podfile as removePodfileFromProject would  *)
(* from the same state: the owner's block, call lines and platform row are *)
(* gone, and the file is deleted when an empty template would remain.      *)
C10_MissingFragment ==
    LastIsApplyOfMissing =>
        /\ hist[Len(hist)].after
               = removePodfileFromProject(hist[Len(hist)].owner,
                     getPluginPodfilePath(hist[Len(hist)].owner),
                     hist[Len(hist)].before).file
        /\ ~HoldsBlockOf(podfile, hist[Len(hist)].owner)
        /\ ~Contains(podfile.content, BaseNameOf(hist[Len(hist)].owner))
        /\ ~Contains(podfile.content,
                     getPlatformSectionHeader(getPluginPodfilePath(hist[Len(hist)].owner)))
        /\ podfile.exists => ~IsEmptyTemplate(podfile.content)
        /\ (hist[Len(hist)].before.exists /\ ~podfile.exists)
               => IsEmptyTemplate(
                      removePlatformSection(hist[Len(hist)].owner,
                          removePostInstallHook(hist[Len(hist)].owner,
                              RemoveMarkedBlocks(hist[Len(hist)].before.content,
                                  HeaderOf(hist[Len(hist)]), getPluginPodfileEnd)),
                          getPluginPodfilePath(hist[Len(hist)].owner)))

\* the fragment of an applied owner with a hook went missing; another owner stays
C10_Witness ==
    /\ Len(hist) = 3
    /\ LastIsApplyOfMissing
    /\ hist[1].owner # hist[3].owner
    /\ HoldsBlockOf(hist[3].before, hist[3].owner)
    /\ Contains(hist[3].before.content, BaseNameOf(hist[3].owner))
    /\ HoldsBlockOf(podfile, hist[1].owner)
    /\ hist[3].writes = 1

\* the last call is a removePodfileFromProject
LastIsRemove == Len(hist) >= 1 /\ hist[Len(hist)].op = "remove"

(* C11: missing project file on remove.  When the project Podfile does not  *)
(* exist, removePodfileFromProject writes nothing, deletes nothing, and    *)
(* the file still does not exist afterwards.                               *)
C11_RemoveWithoutFile ==
    (LastIsRemove /\ ~hist[Len(hist)].before.exists) =>
        /\ hist[Len(hist)].writes = 0
        /\ hist[Len(hist)].deletes = 0
        /\ ~hist[Len(hist)].after.exists
        /\ ~podfile.exists

\* a remove deleted the project Podfile and a second remove found no file
C11_Witness ==
    /\ Len(hist) = 3
    /\ hist[1].op = "apply" /\ hist[1].writes = 1
    /\ hist[2].op = "remove" /\ hist[2].deletes = 1
    /\ LastIsRemove
    /\ ~hist[3].before.exists
    /\ hist[3].writes = 0 /\ hist[3].deletes = 0
    /\ ~podfile.exists

\* what the three removals of lines 110-113 leave of the file before the last call
LeftByLastRemove ==
    removePlatformSection(hist[Len(hist)].owner,
        removePostInstallHook(hist[Len(hist)].owner,
            RemoveMarkedBlocks(hist[Len(hist)].before.content,
                               HeaderOf(hist[Len(hist)]), getPluginPodfileEnd)),
        getPluginPodfilePath(hist[Len(hist)].owner))

(* C12: no persisted empty template.  In every reachable state the project  *)
(* Podfile, if it exists, is not empty and not one of the two empty        *)
(* templates after trimming; a remove whose result is such a content       *)
(* deletes the file and writes nothing, and any other remove writes its    *)
(* result.                                                                 *)
C12_NoEmptyTemplate ==
    /\ podfile.exists => ~IsEmptyTemplate(podfile.content)
    /\ (LastIsRemove /\ hist[Len(hist)].before.exists) =>
           IF IsEmptyTemplate(LeftByLastRemove)
           THEN /\ ~podfile.exists
                /\ hist[Len(hist)].deletes = 1
                /\ hist[Len(hist)].writes = 0
           ELSE /\ podfile = File(LeftByLastRemove)
                /\ hist[Len(hist)].writes = 1
                /\ hist[Len(hist)].deletes = 0

\* a remove left the empty aggregate template and deleted the file, after a
\* remove of another owner that wrote its result
C12_Witness ==
    /\ Len(hist) = 3
    /\ hist[2].op = "remove" /\ hist[2].writes = 1
    /\ LastIsRemove
    /\ hist[3].before.exists
    /\ Trim(LeftByLastRemove) = defaultContentWithPostInstallHook
    /\ ~podfile.exists

\* the call lines of the aggregate that call a generated function of the owner
OwnerCallLines(content, moduleName) ==
    LET IsCallOf(line) == Contains(line, BaseNameOf(moduleName) \o "_")
    IN  SelectSeq(AggregateCalls(content), IsCallOf)

\* the managed block of the owner in a document, from its header marker through
\* the end marker that follows it; "" when the document holds no such block
BlockTextOf(content, moduleName) ==
    LET header == getPluginPodfileHeader(getPluginPodfilePath(moduleName)) \o EOL
        from == IndexOf(content, header)
        to == IndexOf(Substr(content, from), getPluginPodfileEnd)
    IN  IF from = -1 \/ to = -1 THEN ""
        ELSE SubSeq(content, from + 1, from + to + Len(getPluginPodfileEnd))

\* the last call left the managed block and the call lines of every owner
\* other than its own as they were
OthersUnchanged(owners) ==
    \A other \in owners \ {hist[Len(hist)].owner} :
        /\ BlockTextOf(podfile.content, other)
               = BlockTextOf(hist[Len(hist)].before.content, other)
        /\ OwnerCallLines(podfile.content, other)
               = OwnerCallLines(hist[Len(hist)].before.content, other)

\* the last call applies a changed fragment for an owner the document holds
LastIsReapply ==
    /\ LastApplyInserted
    /\ HoldsBlockOf(hist[Len(hist)].before, hist[Len(hist)].owner)

(* C13: replace on re-apply.  When an owner that is in the document is      *)
(* applied again with a changed fragment, the document holds the new       *)
(* managed block and not the old one, the owner's call lines are exactly   *)
(* those of the functions of the new fragment, and the blocks and call     *)
(* lines of the other owners are unchanged.                                *)
C13_ReplaceOnReapply ==
    LastIsReapply =>
        /\ Contains(podfile.content, BuiltOf(hist[Len(hist)]).podfileContent)
        /\ BlocksOf(hist[Len(hist)].owner) = 1
        /\ ~Contains(podfile.content,
                     BlockTextOf(hist[Len(hist)].before.content, hist[Len(hist)].owner))
        /\ OwnerCallLines(podfile.content, hist[Len(hist)].owner)
               = CallTextsOf(BuiltOf(hist[Len(hist)]).replacedFunctions)
        /\ OthersUnchanged(Owners)

(* C14: existing entries are preserved on apply.  An apply of owner B to a  *)
(* document that holds contributions of other owners keeps the text of     *)
(* every other owner's managed block and every other owner's call line in  *)
(* the aggregate.                                                          *)
C14_PreservesOthers == LastApplyInserted => OthersUnchanged(Owners)

\* sanitize: every "_" becomes "___" and every other character outside
\* [A-Za-z0-9_] becomes "_"
RECURSIVE Sanitize(_)
Sanitize(s) ==
    IF s = "" THEN ""
    ELSE (IF CharAt(s, 1) = "_" THEN "___"
          ELSE IF CharAt(s, 1) \in WordChars THEN CharAt(s, 1)
          ELSE "_") \o Sanitize(Substr(s, 1))

\* the "def" lines of the managed block of the owner in a document, in order
GeneratedDefLines(content, moduleName) ==
    LET IsDef(line) == StartsWith(line, "def ")
    IN  SelectSeq(SplitLines(BlockTextOf(content, moduleName)), IsDef)

\* the function name of a "def" line
DefNameOf(line) == SubSeq(line, 5, 4 + RunLength(line, 5, WordChars))

\* the number of occurrences of "<hookName> do" in the fragment of a call
HookCount(call) ==
    CountOf(call.fragment.content, PODFILE_POST_INSTALL_SECTION_NAME \o " do")

\* the "def" lines of the block that the last call put into the document
LastDefLines == GeneratedDefLines(podfile.content, hist[Len(hist)].owner)

(* C15 as claimed: the k-th occurrence (from 0) of "<hookName> do" in a     *)
(* fragment becomes the function sanitize(hookName + ownerId) + "_" + k.   *)
C15_NamesAsClaimed ==
    LastApplyInserted =>
        /\ Len(LastDefLines) = HookCount(hist[Len(hist)])
        /\ \A k \in 1..Len(LastDefLines) :
               DefNameOf(LastDefLines[k])
                   = Sanitize(PODFILE_POST_INSTALL_SECTION_NAME \o hist[Len(hist)].owner)
                         \o "_" \o NumberToString(k - 1)

(* C15 as amended: the k-th occurrence (from 0, in order of appearance) of  *)
(* "<hookName> do" in a fragment becomes the function                      *)
(* hookName + sanitize(ownerId) + "_" + k: the hook name itself is not     *)
(* sanitized.  Every apply numbers the functions of its fragment from 0.   *)
C15_GeneratedNames ==
    LastApplyInserted =>
        /\ Len(LastDefLines) = HookCount(hist[Len(hist)])
        /\ \A k \in 1..Len(LastDefLines) :
               DefNameOf(LastDefLines[k])
                   = PODFILE_POST_INSTALL_SECTION_NAME \o Sanitize(hist[Len(hist)].owner)
                         \o "_" \o NumberToString(k - 1)

\* a fragment with two hooks was applied for a plugin with an underscore in its
\* name, after a hook of another plugin: two functions, numbered 0 and 1
C15_Witness ==
    /\ Len(hist) = 2
    /\ LastApplyInserted
    /\ hist[1].owner # hist[2].owner
    /\ HookCount(hist[1]) = 1
    /\ Contains(hist[2].owner, "_")
    /\ HookCount(hist[2]) = 2
    /\ Len(LastDefLines) = 2
    /\ DefNameOf(LastDefLines[2])
           = PODFILE_POST_INSTALL_SECTION_NAME \o Sanitize(hist[2].owner) \o "_1"

\* the lines of the fragment of a call that open a hook block
HookOpeningLines(call) ==
    LET Opens(line) == StartsWith(line, PODFILE_POST_INSTALL_SECTION_NAME \o " do")
    IN  SelectSeq(SplitLines(call.fragment.content), Opens)

\* the block parameter a hook opening line declares in pipes, "" when none
DeclaredParameter(line) ==
    LET rest == Trim(Substr(line, Len(PODFILE_POST_INSTALL_SECTION_NAME \o " do")))
    IN  IF Len(rest) > 2 /\ CharAt(rest, 1) = "|" /\ CharAt(rest, Len(rest)) = "|"
        THEN SubSeq(rest, 2, Len(rest) - 1) ELSE ""

\* the text of a "def" line after the function name
DefParametersOf(line) == Substr(line, 4 + RunLength(line, 5, WordChars))

(* C16: parameter agreement between definition and call.  For every hook    *)
(* of an applied fragment, the generated "def" takes the block parameter   *)
(* of the hook exactly when the hook declares one in pipes, and the call   *)
(* line of the function passes "installer" exactly in that case; a hook    *)
(* without block parameter gives a "def" without parameter and a call line *)
(* without argument.                                                       *)
C16_ParameterAgreement ==
    LastApplyInserted =>
        /\ Len(LastDefLines) = Len(HookOpeningLines(hist[Len(hist)]))
        /\ \A k \in 1..Len(LastDefLines) :
               LET declared == DeclaredParameter(HookOpeningLines(hist[Len(hist)])[k])
                   name == DefNameOf(LastDefLines[k])
               IN  IF declared # ""
                   THEN /\ DefParametersOf(LastDefLines[k]) = " (" \o declared \o ")"
                        /\ TimesCalled(podfile.content,
                               "  " \o name \o " " \o INSTALLER_BLOCK_PARAMETER_NAME) = 1
                        /\ TimesCalled(podfile.content, "  " \o name) = 0
                   ELSE /\ DefParametersOf(LastDefLines[k]) = ""
                        /\ TimesCalled(podfile.content, "  " \o name) = 1
                        /\ TimesCalled(podfile.content,
                               "  " \o name \o " " \o INSTALLER_BLOCK_PARAMETER_NAME) = 0

\* a fragment with a hook without and a hook with a block parameter was applied
\* on top of a hook whose block parameter is not called "installer"
C16_Witness ==
    /\ Len(hist) = 2
    /\ LastApplyInserted
    /\ hist[1].owner # hist[2].owner
    /\ Contains(hist[1].fragment.content, "|pi|")
    /\ Contains(podfile.content, " (pi)" \o EOL)
    /\ Len(LastDefLines) = 2
    /\ DeclaredParameter(HookOpeningLines(hist[2])[1]) = ""
    /\ DeclaredParameter(HookOpeningLines(hist[2])[2]) = "installer"
    /\ Len(AggregateCalls(podfile.content)) = 3

\* the fragment of the call mentions the hook name but opens no hook block
MentionsHookOnly(call) ==
    /\ call.fragment.exists
    /\ Contains(call.fragment.content, PODFILE_POST_INSTALL_SECTION_NAME)
    /\ ~Contains(call.fragment.content, PODFILE_POST_INSTALL_SECTION_NAME \o " do")

\* the managed block of a fragment whose text is taken as it is
BlockOfUnchanged(call) ==
    getPluginPodfileHeader(getPluginPodfilePath(call.owner)) \o EOL
        \o call.fragment.content \o EOL \o getPluginPodfileEnd

(* C17: malformed hook block.  When a fragment mentions the hook name but   *)
(* holds no "<hookName> do", no function is extracted: the managed block   *)
(* holds the fragment text unchanged, the apply creates no aggregate and   *)
(* adds no call line to an aggregate that is there.                        *)
C17_MalformedHook ==
    (LastApplyInserted /\ MentionsHookOnly(hist[Len(hist)])) =>
        /\ BlockTextOf(podfile.content, hist[Len(hist)].owner)
               = BlockOfUnchanged(hist[Len(hist)])
        /\ LastDefLines = <<>>
        /\ OwnerCallLines(podfile.content, hist[Len(hist)].owner) = <<>>
        /\ Contains(podfile.content, getPostInstallHookHeader)
               => Contains(hist[Len(hist)].before.content, getPostInstallHookHeader)
        /\ AggregateCalls(podfile.content)
               = WithoutCallsOf(AggregateCalls(hist[Len(hist)].before.content),
                                hist[Len(hist)].owner)

\* a fragment with a hook written with braces was applied to a document that
\* holds the aggregate of another plugin: the aggregate is as it was
C17_Witness ==
    /\ Len(hist) = 2
    /\ LastApplyInserted
    /\ MentionsHookOnly(hist[2])
    /\ hist[1].owner # hist[2].owner
    /\ Len(AggregateCalls(hist[2].before.content)) >= 1
    /\ AggregateCalls(podfile.content) = AggregateCalls(hist[2].before.content)
    /\ Contains(podfile.content, BlockOfUnchanged(hist[2]))

\* the index of the last apply of an existing fragment for the owner, 0 if none
LatestApplyOf(moduleName) ==
    LET mine == {i \in Applies : hist[i].owner = moduleName}
    IN  IF mine = {} THEN 0 ELSE CHOOSE i \in mine : \A j \in mine : j <= i

\* the managed block that the last apply for the owner of the last call built
LastBuiltBlock ==
    BuiltOf(hist[LatestApplyOf(hist[Len(hist)].owner)]).podfileContent

(* C18: the marker-keyed removal does not depend on the content.  Whatever  *)
(* the body of the fragment (a line "# End Podfile" included), the removal *)
(* by the marker pair deletes the whole managed block of the owner, from   *)
(* its header marker through its end marker, and nothing else.             *)
C18_MarkerRemoval ==
    (/\ LastIsRemove
     /\ LatestApplyOf(hist[Len(hist)].owner) # 0
     /\ Contains(hist[Len(hist)].before.content, LastBuiltBlock))
    => RemoveMarkedBlocks(hist[Len(hist)].before.content,
                          HeaderOf(hist[Len(hist)]), getPluginPodfileEnd)
           = ReplaceFirst(hist[Len(hist)].before.content, LastBuiltBlock, "")

\* the calls of the run that apply a fragment with a hook for the plugin name
HookAppliesOf(moduleName) ==
    {i \in Applies : hist[i].owner = moduleName /\ HookCount(hist[i]) > 0}

\* the name of the first function generated for the call
FirstFunctionOf(call) == BuiltOf(call).replacedFunctions[1].functionName

ExpectedFirstFunction(moduleName) ==
    CASE moduleName = "nativescript-hook" -> "post_installnativescript_hook_0"
      [] moduleName = "nativescript_hook" -> "post_installnativescript___hook_0"
      [] moduleName = "nativescript___hook" -> "post_installnativescript_________hook_0"

WithoutIndent(line) == Substr(line, RunLength(line, 1, {" "}))

\* the function a call line of the aggregate names
CalledNameOf(line) ==
    SubSeq(WithoutIndent(line), 1, RunLength(WithoutIndent(line), 1, WordChars))

\* the lines of a document that are inside a managed block: after a header marker
\* and before the end marker that follows it
RECURSIVE BlockLinesFrom(_, _, _)
BlockLinesFrom(lines, i, inside) ==
    IF i > Len(lines) THEN <<>>
    ELSE IF StartsWith(lines[i], getPluginPodfileHeader(""))
    THEN BlockLinesFrom(lines, i + 1, TRUE)
    ELSE IF lines[i] \o EOL = getPluginPodfileEnd
    THEN BlockLinesFrom(lines, i + 1, FALSE)
    ELSE (IF inside THEN <<lines[i]>> ELSE <<>>) \o BlockLinesFrom(lines, i + 1, inside)

\* the names of the generated functions that the managed blocks of a document
\* define, one entry for each "def" line
DefinedFunctions(content) ==
    LET IsGenerated(line) ==
            StartsWith(line, "def " \o PODFILE_POST_INSTALL_SECTION_NAME)
        defs == SelectSeq(BlockLinesFrom(SplitLines(content), 1, FALSE), IsGenerated)
    IN  [k \in 1..Len(defs) |-> DefNameOf(defs[k])]

\* the names of the functions that the call lines of the aggregate call
CalledFunctions(content) ==
    LET calls == AggregateCalls(content)
    IN  [k \in 1..Len(calls) |-> CalledNameOf(calls[k])]

\* the number of entries of a sequence that equal x
Occurrences(seq, x) == Cardinality({k \in 1..Len(seq) : seq[k] = x})

(* C20: aggregate consistency.  In every state reachable from no project    *)
(* Podfile, every call line of the post_install aggregate names a function *)
(* that a "def" line of a managed block of the document defines, and every *)
(* generated "def" line of a managed block has exactly one call line in    *)
(* the aggregate.                                                          *)
C20_AggregateConsistency ==
    LET defined == DefinedFunctions(podfile.content)
        called == CalledFunctions(podfile.content)
    IN  /\ \A k \in 1..Len(called) : Occurrences(defined, called[k]) >= 1
        /\ \A k \in 1..Len(defined) : Occurrences(called, defined[k]) = 1

\* of two plugins with hooks, three functions in all, one was removed: the
\* function of the other is still defined and still called once
C20_Witness ==
    /\ Len(hist) = 3
    /\ hist[3].op = "remove"
    /\ hist[3].writes = 1
    /\ Len(DefinedFunctions(hist[3].before.content)) = 3
    /\ Len(CalledFunctions(hist[3].before.content)) = 3
    /\ Len(DefinedFunctions(podfile.content)) = 1
    /\ CalledFunctions(podfile.content) = DefinedFunctions(podfile.content)

\* the text of a document from its aggregate header on, "" when it has none
FromAggregate(content) ==
    LET at == IndexOf(content, getPostInstallHookHeader)
    IN  IF at = -1 THEN "" ELSE Substr(content, at)

(* C21: document well-formedness.  In every state reachable from no project *)
(* Podfile, the file, if it exists, starts with the default header of the  *)
(* project name, ends with the default footer (a last line "end"), and     *)
(* holds at most one "post_install do |installer|" aggregate header, after *)
(* all managed blocks.                                                     *)
C21_WellFormed ==
    podfile.exists =>
        /\ StartsWith(podfile.content, getPodfileHeader(projectName))
        /\ EndsWith(podfile.content, getPodfileFooter)
        /\ CountOf(podfile.content, getPostInstallHookHeader) <= 1
        /\ ~Contains(FromAggregate(podfile.content), getPluginPodfileHeader(""))

\* a remove wrote a document that holds a managed block and, after it, the
\* aggregate, to which a call line had been added when it was there already
C21_Witness ==
    /\ Len(hist) = 3
    /\ hist[2].op = "apply"
    /\ Contains(hist[2].before.content, getPostInstallHookHeader)
    /\ Len(AggregateCalls(hist[2].after.content))
           > Len(AggregateCalls(hist[2].before.content))
    /\ hist[3].op = "remove"
    /\ hist[3].writes = 1
    /\ podfile.exists
    /\ Len(BlockHeadersIn(podfile.content)) >= 1
    /\ CountOf(podfile.content, getPostInstallHookHeader) = 1
    /\ StartsWith(podfile.content, getPodfileHeader(projectName))
    /\ EndsWith(podfile.content, getPodfileFooter)

\* the indexes of the calls of the decorated method on an instance
CallsOn(this) == {k \in 1..Len(cacheCalls) : cacheCalls[k].this = this}

\* the index of the first call on an instance that was called
FirstCallOn(this) == CHOOSE k \in CallsOn(this) : \A j \in CallsOn(this) : k <= j

\* each instance runs the original method at most once, in its first call
RunsAtMostOnce ==
    \A this \in Instances :
        \A k \in CallsOn(this) : cacheCalls[k].runs <=> k = FirstCallOn(this)

(* C22: the cache decorator.  For a method decorated with @cache(), each    *)
(* instance runs the original method at most once, and every call on an    *)
(* instance returns the value that the first call on that same instance    *)
(* computed, for any interleaving of calls on two or more instances.       *)
C22_CachePerInstance ==
    /\ RunsAtMostOnce
    /\ \A k \in 1..Len(cacheCalls) :
           cacheCalls[k].returned
               = originalValue(cacheCalls[k].this, cacheCalls[FirstCallOn(cacheCalls[k].this)].args)

====
